---------------------------- MODULE Spec2Model ----------------------------
(***************************************************************************)
(* Model of the duplicate-tab engine of duplicate-tab-closer:              *)
(* src/lib/fuzzy-matcher.js (parseUrl, normalizeUrl, levenshteinDistance,  *)
(* stringSimilarity, findSimilarity, analyzeTabs), of the popup that runs  *)
(* its own copy of the engine (scanTabs, closeAllDuplicates,               *)
(* handleSimilarAction) and of the service worker's badge counter          *)
(* (countDuplicates, normalizeUrlSimple).                                  *)
(*                                                                         *)
(* Strings are sequences of one-character strings, so that length, edit    *)
(* distance, prefix and substring tests are computed character by          *)
(* character as the JavaScript does.  A tab's url is the record of the     *)
(* syntactic pieces of the raw string; urlText gives the raw string and    *)
(* parseUrl models what the host's URL class makes of it.                  *)
(***************************************************************************)
EXTENDS Integers, Sequences, FiniteSets, TLC

VARIABLES
  tabs,             \* the tabs at hand: the argument of a call, or the host's open tabs
  threshold,        \* the similarity threshold
  result,           \* the last call and what it returned
  currentAnalysis   \* the popup's currentAnalysis

vars == <<tabs, threshold, result, currentAnalysis>>

\* JavaScript null
NULL == [null |-> TRUE]

-----------------------------------------------------------------------------
(* Characters and strings *)

Min2(a, b) == IF a <= b THEN a ELSE b

Max2(a, b) == IF a >= b THEN a ELSE b

\* The characters the model's strings use, in ascending UTF-16 code order
\* (the order Array.prototype.sort() compares keys by).
Alphabet ==
  << " ", "#", "&", ",", ".", "/", "1", "2", ":", "=", "?",
     "A", "C", "D", "E", "F", "G", "O", "R", "S", "T", "U",
     "_", "a", "b", "c", "d", "e", "f", "g", "h", "i", "l", "m", "n", "o",
     "p", "r", "s", "t", "u", "v", "w", "x" >>

Code(c) == CHOOSE i \in 1..Len(Alphabet) : Alphabet[i] = c

\* String.prototype.toLowerCase on one character
LowerChar(c) ==
  CASE c = "A" -> "a" [] c = "C" -> "c" [] c = "D" -> "d" [] c = "E" -> "e"
    [] c = "F" -> "f" [] c = "G" -> "g" [] c = "O" -> "o" [] c = "R" -> "r"
    [] c = "S" -> "s" [] c = "T" -> "t" [] c = "U" -> "u"
    [] OTHER -> c

toLowerCase(s) == [i \in 1..Len(s) |-> LowerChar(s[i])]

startsWith(s, prefix) ==
  /\ Len(s) >= Len(prefix)
  /\ SubSeq(s, 1, Len(prefix)) = prefix

includes(s, needle) ==
  \E i \in 1..(Len(s) - Len(needle) + 1) : SubSeq(s, i, i + Len(needle) - 1) = needle

\* s1 < s2 in the code-unit order of the default sort
RECURSIVE StrLess(_, _)
StrLess(s1, s2) ==
  IF s2 = <<>> THEN FALSE
  ELSE IF s1 = <<>> THEN TRUE
  ELSE IF s1[1] # s2[1] THEN Code(s1[1]) < Code(s2[1])
  ELSE StrLess(Tail(s1), Tail(s2))

RECURSIVE SelectSeqIdx(_, _, _)
\* the indices i of 1..n, ascending, with keep[i]
SelectSeqIdx(keep, i, n) ==
  IF i > n THEN <<>>
  ELSE (IF keep[i] THEN <<i>> ELSE <<>>) \o SelectSeqIdx(keep, i + 1, n)

-----------------------------------------------------------------------------
(* String literals of the source *)

ChromeScheme == <<"c","h","r","o","m","e",":","/","/">>

ChromeExtensionScheme ==
  <<"c","h","r","o","m","e","-","e","x","t","e","n","s","i","o","n",":","/","/">>

DocsGoogleCom == <<"d","o","c","s",".","g","o","o","g","l","e",".","c","o","m">>

WwwDot == <<"w","w","w",".">>

\* GOOGLE_WORKSPACE_PATTERNS: the literal each pattern starts with (anchored
\* at ^), followed by the capture ([^\/]+), and its type
GOOGLE_WORKSPACE_PATTERNS ==
  << [prefix |-> DocsGoogleCom \o <<"/","d","o","c","u","m","e","n","t","/","d","/">>,
      type   |-> <<"d","o","c">>],
     [prefix |-> DocsGoogleCom \o <<"/","s","p","r","e","a","d","s","h","e","e","t","s","/","d","/">>,
      type   |-> <<"s","h","e","e","t">>],
     [prefix |-> DocsGoogleCom \o <<"/","p","r","e","s","e","n","t","a","t","i","o","n","/","d","/">>,
      type   |-> <<"s","l","i","d","e","s">>] >>

TRACKING_PARAMS ==
  { <<"u","t","m","_","s","o","u","r","c","e">>, <<"u","t","m","_","m","e","d","i","u","m">>,
    <<"u","t","m","_","c","a","m","p","a","i","g","n">>, <<"u","t","m","_","t","e","r","m">>,
    <<"u","t","m","_","c","o","n","t","e","n","t">>,
    <<"f","b","c","l","i","d">>, <<"g","c","l","i","d">>, <<"m","s","c","l","k","i","d">>,
    <<"d","c","l","i","d">>,
    <<"r","e","f">>, <<"s","o","u","r","c","e">>, <<"m","c","_","c","i","d">>,
    <<"m","c","_","e","i","d">>,
    <<"_","g","a">>, <<"_","g","l">>, <<"y","c","l","i","d">>, <<"w","i","c","k","e","d","i","d">>,
    <<"t","w","c","l","i","d">>, <<"i","g","s","h","i","d">>, <<"z","a","n","p","i","d">> }

-----------------------------------------------------------------------------
(* URLs *)

\* The raw url string of a tab.  A string the URL class accepts is given by
\* its pieces (scheme with ':', host as written, port, path as written, the
\* query's key/value entries in written order, hash with '#'); a string it
\* rejects is given by its text alone.
RECURSIVE queryText(_)
queryText(q) ==
  IF q = <<>> THEN <<>>
  ELSE q[1][1] \o <<"=">> \o q[1][2]
       \o (IF Len(q) > 1 THEN <<"&">> ELSE <<>>) \o queryText(Tail(q))

urlText(u) ==
  IF ~u.valid THEN u.text
  ELSE u.scheme \o <<"/","/">> \o u.host
       \o (IF u.port # <<>> THEN <<":">> \o u.port ELSE <<>>)
       \o u.path
       \o (IF u.query # <<>> THEN <<"?">> \o queryText(u.query) ELSE <<>>)
       \o u.hash

\* pathname.replace(/\/+$/, '')
RECURSIVE stripTrailingSlashes(_)
stripTrailingSlashes(p) ==
  IF p # <<>> /\ p[Len(p)] = "/" THEN stripTrailingSlashes(SubSeq(p, 1, Len(p) - 1))
  ELSE p

\* hostname.replace(/^www\./, '')
stripWww(h) == IF startsWith(h, WwwDot) THEN SubSeq(h, Len(WwwDot) + 1, Len(h)) ELSE h

\* Object.fromEntries(url.searchParams.entries()): a repeated key keeps its
\* first position and takes the last value.  The object is the sequence of
\* its <<key, value>> properties in property order (the model's keys are
\* never array indices, which JavaScript would move to the front).
RECURSIVE fromEntries(_, _)
fromEntries(entries, obj) ==
  IF entries = <<>> THEN obj
  ELSE LET e == entries[1]
           at == {i \in 1..Len(obj) : obj[i][1] = e[1]}
       IN fromEntries(Tail(entries),
                      IF at = {} THEN Append(obj, e)
                      ELSE [i \in 1..Len(obj) |-> IF i \in at THEN e ELSE obj[i]])

parseUrl(u) ==
  IF ~u.valid THEN NULL
  ELSE [ protocol |-> u.scheme,
         hostname |-> toLowerCase(u.host),
         port     |-> u.port,
         pathname |-> LET p == stripTrailingSlashes(u.path)
                      IN IF p = <<>> THEN <<"/">> ELSE p,
         hash     |-> u.hash,
         params   |-> fromEntries(u.query, <<>>) ]

\* Object.keys(params).sort(): insertion sort by code-unit order (keys of an
\* object are distinct, so the order is total)
RECURSIVE insertKey(_, _)
insertKey(sorted, k) ==
  IF sorted = <<>> THEN <<k>>
  ELSE IF StrLess(k, sorted[1]) THEN <<k>> \o sorted
  ELSE <<sorted[1]>> \o insertKey(Tail(sorted), k)

RECURSIVE sortKeys(_)
sortKeys(ks) == IF ks = <<>> THEN <<>> ELSE insertKey(sortKeys(Tail(ks)), ks[1])

paramValue(params, k) == (CHOOSE i \in 1..Len(params) : params[i][1] = k)

normalizeUrl(u) ==
  LET parsed == parseUrl(u) IN
  IF parsed = NULL THEN urlText(u)
  ELSE LET hostname == stripWww(parsed.hostname)
           keys == sortKeys([i \in 1..Len(parsed.params) |-> parsed.params[i][1]])
           sortedParams ==
             queryText([i \in 1..Len(keys) |->
                          <<keys[i], parsed.params[paramValue(parsed.params, keys[i])][2]>>])
           query == IF sortedParams # <<>> THEN <<"?">> \o sortedParams ELSE <<>>
       IN parsed.protocol \o <<"/","/">> \o hostname
          \o (IF parsed.port # <<>> THEN <<":">> \o parsed.port ELSE <<>>)
          \o parsed.pathname \o query

\* getGoogleDocId(hostname, pathname): first pattern that matches
\* hostname + pathname; match[1] is the longest run of non-'/' characters
\* after the pattern's literal, which must not be empty
RECURSIVE takeNonSlash(_)
takeNonSlash(s) ==
  IF s = <<>> \/ s[1] = "/" THEN <<>> ELSE <<s[1]>> \o takeNonSlash(Tail(s))

patternMatch(combined, pat) ==
  IF startsWith(combined, pat.prefix)
  THEN takeNonSlash(SubSeq(combined, Len(pat.prefix) + 1, Len(combined)))
  ELSE <<>>

getGoogleDocId(hostname, pathname) ==
  LET combined == hostname \o pathname
      hits == SelectSeqIdx([i \in 1..Len(GOOGLE_WORKSPACE_PATTERNS) |->
                              patternMatch(combined, GOOGLE_WORKSPACE_PATTERNS[i]) # <<>>],
                           1, Len(GOOGLE_WORKSPACE_PATTERNS))
  IN IF hits = <<>> THEN NULL
     ELSE [ docId |-> patternMatch(combined, GOOGLE_WORKSPACE_PATTERNS[hits[1]]),
            type  |-> GOOGLE_WORKSPACE_PATTERNS[hits[1]].type ]


-----------------------------------------------------------------------------
(* String similarity *)

\* a row in which a substitution costs as much as a deletion and an insertion
RECURSIVE dpRowCostlySubstitution(_, _, _, _)
dpRowCostlySubstitution(prev, ch, str2, acc) ==
  IF Len(acc) = Len(str2) + 1 THEN acc
  ELSE LET j == Len(acc)
           cost == IF ch = str2[j] THEN 0 ELSE 2
           val == Min2(Min2(prev[j + 1] + 1, acc[j] + 1), prev[j] + cost)
       IN dpRowCostlySubstitution(prev, ch, str2, Append(acc, val))

\* One row of the dp table: acc holds dp[i][0..Len(acc)-1], prev is dp[i-1]
RECURSIVE dpRow(_, _, _, _)
dpRow(prev, ch, str2, acc) ==
  IF Len(acc) = Len(str2) + 1 THEN acc
  ELSE LET j == Len(acc)
           cost == IF ch = str2[j] THEN 0 ELSE 1
           val == Min2(Min2(prev[j + 1] + 1,     \* deletion
                            acc[j] + 1),         \* insertion
                       prev[j] + cost)           \* substitution
       IN dpRow(prev, ch, str2, Append(acc, val))

RECURSIVE dpRows(_, _, _, _)
dpRows(str1, str2, i, prev) ==
  IF i > Len(str1) THEN prev
  ELSE LET row == dpRow(prev, str1[i], str2, <<i>>)
       IN \* dp[i] is filled, all its n + 1 cells, before dp[i + 1] is begun
          CASE Len(row) = Len(str2) + 1 -> dpRows(str1, str2, i + 1, row)

levenshteinDistance(str1, str2) ==
  LET m == Len(str1)
      n == Len(str2)
  IN IF m = 0 THEN n
     ELSE IF n = 0 THEN m
     ELSE dpRows(str1, str2, 1, [j \in 1..(n + 1) |-> j - 1])[n + 1]

\* Math.round(x) for x = num / den >= 0: the nearest integer, halves up.
\* (In stringSimilarity den is the longer length; for lengths under 40 the
\* double the code rounds is on the same side of every half as num / den.)
Round(num, den) == (2 * num + den) \div (2 * den)

\* a similarity relative to the length of the first string
stringSimilarityOfFirstLength(str1, str2) ==
  IF str1 = str2 THEN 100
  ELSE IF str1 = <<>> \/ str2 = <<>> THEN 0
  ELSE LET distance == levenshteinDistance(str1, str2)
       IN Round(Max2(Len(str1) - distance, 0) * 100, Len(str1))

stringSimilarity(str1, str2) ==
  IF str1 = str2 THEN 100
  ELSE IF str1 = <<>> \/ str2 = <<>> THEN 0
  ELSE LET maxLen == Max2(Len(str1), Len(str2))
           distance == levenshteinDistance(str1, str2)
       IN Round((maxLen - distance) * 100, maxLen)

-----------------------------------------------------------------------------
(* Pairwise classifier *)

getNonTrackingParams(params) ==
  LET keep == SelectSeqIdx([i \in 1..Len(params) |->
                              toLowerCase(params[i][1]) \notin TRACKING_PARAMS],
                           1, Len(params))
  IN [i \in 1..Len(keep) |-> params[keep[i]]]

\* JSON.stringify of an object of string values is one-to-one on the
\* sequence of its properties in property order: the model compares those
\* sequences, so that {a,b} and {b,a} differ as their JSON texts do.
JSONstringify(obj) == obj

differsByTrackingOnly(params1, params2) ==
  LET clean1 == getNonTrackingParams(params1)
      clean2 == getNonTrackingParams(params2)
  IN JSONstringify(clean1) = JSONstringify(clean2)

\* a classifier without the same-domain check
differentDomainNever(host1, host2) == FALSE

\* host1 !== host2: the two tabs are not on the same base domain
differentDomain(host1, host2) == host1 # host2

\* pathSimilarity >= threshold && pathSimilarity < 100
similarPath(pathSimilarity, thr) == pathSimilarity >= thr /\ pathSimilarity < 100

\* the comparison the wrong way round
overallSimilarFlipped(weightedScore, thr) == weightedScore <= thr

\* weightedScore >= threshold
overallSimilar(weightedScore, thr) == weightedScore >= thr

\* a verdict that loses its reason
VerdictWithoutReason(similar, score, reason) == [similar |-> similar, score |-> score, reason |-> NULL]

Verdict(similar, score, reason) == [similar |-> similar, score |-> score, reason |-> reason]

Reason(text) == [text |-> text]

ReasonN(text, n) == [text |-> text, n |-> n]

findSimilarity(tab1, tab2, thr) ==
  LET url1 == parseUrl(tab1.url)
      url2 == parseUrl(tab2.url)
  IN
  IF url1 = NULL \/ url2 = NULL THEN Verdict(FALSE, 0, NULL)
  ELSE
  LET host1 == stripWww(url1.hostname)
      host2 == stripWww(url2.hostname)
      paramsMatch == JSONstringify(url1.params) = JSONstringify(url2.params)
  IN
  IF /\ url1.hostname # url2.hostname
     /\ host1 = host2
     /\ url1.pathname = url2.pathname
     /\ paramsMatch
  THEN Verdict(TRUE, 95, Reason("Same page on different subdomain"))
  ELSE IF differentDomain(host1, host2) THEN Verdict(FALSE, 0, NULL)
  ELSE IF url1.pathname = url2.pathname /\ paramsMatch /\ url1.hash # url2.hash
  THEN Verdict(TRUE, 90, Reason("Same page, different section"))
  ELSE IF url1.pathname = url2.pathname /\ ~paramsMatch
  THEN IF differsByTrackingOnly(url1.params, url2.params)
       THEN Verdict(TRUE, 95, Reason("Same page with tracking parameters"))
       ELSE Verdict(TRUE, 85, Reason("Same page, different parameters"))
  ELSE
  LET pathSimilarity == stringSimilarity(url1.pathname, url2.pathname) IN
  IF similarPath(pathSimilarity, thr)
  THEN Verdict(TRUE, pathSimilarity, ReasonN("Similar page paths (N% match)", pathSimilarity))
  ELSE
  LET domainScore == IF host1 = host2 THEN 100 ELSE 0
      pathScore == stringSimilarity(url1.pathname, url2.pathname)
      titleScore == IF tab1.title # <<>> /\ tab2.title # <<>>
                    THEN stringSimilarity(tab1.title, tab2.title) ELSE 0
      \* Math.round(domainScore * 0.4 + pathScore * 0.4 + titleScore * 0.2)
      weightedScore == Round(domainScore * 4 + pathScore * 4 + titleScore * 2, 10)
  IN IF overallSimilar(weightedScore, thr)
     THEN Verdict(TRUE, weightedScore, ReasonN("N% overall similarity", weightedScore))
     ELSE Verdict(FALSE, weightedScore, NULL)


-----------------------------------------------------------------------------
(* Tab analyzer *)

\* Array.prototype.filter: the elements of seq, in order, that satisfy keep
filterSeq(seq, keep) ==
  LET idx == SelectSeqIdx(keep, 1, Len(seq)) IN [i \in 1..Len(idx) |-> seq[idx[i]]]

\* tabs.filter(tab => tab.url && !startsWith('chrome://') && !startsWith('chrome-extension://'))
validTabs(tabList) ==
  filterSeq(tabList,
            [i \in 1..Len(tabList) |->
               LET url == urlText(tabList[i].url)
               IN /\ url # <<>>
                  /\ ~startsWith(url, ChromeScheme)
                  /\ ~startsWith(url, ChromeExtensionScheme)])

\* A Map from key to array of tabs, as the sequence of its entries
\* [key, tabs] in insertion order.  keyOf[i] is the key of seq[i], or NULL
\* when seq[i] is not entered.
RECURSIVE groupBy(_, _, _, _)
groupBy(seq, keyOf, i, map) ==
  IF i > Len(seq) THEN map
  ELSE IF keyOf[i] = NULL THEN groupBy(seq, keyOf, i + 1, map)
  ELSE LET at == {k \in 1..Len(map) : map[k].key = keyOf[i]}
       IN groupBy(seq, keyOf, i + 1,
                  IF at = {} THEN Append(map, [key |-> keyOf[i], tabs |-> <<seq[i]>>])
                  ELSE [k \in 1..Len(map) |->
                          IF k \in at THEN [map[k] EXCEPT !.tabs = Append(@, seq[i])]
                          ELSE map[k]])

\* a grouping that leaves out the tabs whose url does not parse
exactDuplicatesOfParsed(valid) ==
  groupBy(valid,
          [i \in 1..Len(valid) |->
             IF parseUrl(valid[i].url) = NULL THEN NULL
             ELSE [str |-> normalizeUrl(valid[i].url)]],
          1, <<>>)

\* Find exact duplicates by normalized URL
exactDuplicates(valid) ==
  groupBy(valid, [i \in 1..Len(valid) |-> [str |-> normalizeUrl(valid[i].url)]], 1, <<>>)

GdocPrefix == <<"g","d","o","c",":">>

\* the key of a tab in googleDocGroups, NULL when the tab is not entered
googleDocKey(tab) ==
  IF ~includes(urlText(tab.url), DocsGoogleCom) THEN NULL
  ELSE LET parsed == parseUrl(tab.url) IN
       IF parsed = NULL THEN NULL
       ELSE LET googleDoc == getGoogleDocId(parsed.hostname, parsed.pathname) IN
            IF googleDoc = NULL THEN NULL
            ELSE [str |-> GdocPrefix \o googleDoc.type \o <<":">> \o googleDoc.docId]

googleDocGroups(valid) ==
  groupBy(valid, [i \in 1..Len(valid) |-> googleDocKey(valid[i])], 1, <<>>)

idsOf(tabGroup) == {tabGroup[i].id : i \in 1..Len(tabGroup)}

Group(key, tabGroup) ==
  [normalizedUrl |-> key.str, tabs |-> tabGroup, count |-> Len(tabGroup)]

\* for (const [key, tabGroup] of googleDocGroups): push the groups of more
\* than one tab.  acc is [groups, claimed]: duplicateGroups and
\* tabsInDuplicateGroups.
RECURSIVE addGoogleDocGroups(_, _, _)
addGoogleDocGroups(map, k, acc) ==
  IF k > Len(map) THEN acc
  ELSE LET tabGroup == map[k].tabs
       IN addGoogleDocGroups(map, k + 1,
            IF Len(tabGroup) > 1
            THEN [groups  |-> Append(acc.groups, Group(map[k].key, tabGroup)),
                  claimed |-> acc.claimed \cup idsOf(tabGroup)]
            ELSE acc)

\* addUrlGroups that keeps what is left of a group even if it is one tab
RECURSIVE addUrlGroupsOfOne(_, _, _)
addUrlGroupsOfOne(map, k, acc) ==
  IF k > Len(map) THEN acc
  ELSE LET tabGroup == map[k].tabs
           filteredGroup ==
             filterSeq(tabGroup, [i \in 1..Len(tabGroup) |-> tabGroup[i].id \notin acc.claimed])
       IN addUrlGroupsOfOne(map, k + 1,
            IF Len(filteredGroup) > 0
            THEN [groups  |-> Append(acc.groups, Group(map[k].key, filteredGroup)),
                  claimed |-> acc.claimed \cup idsOf(filteredGroup)]
            ELSE acc)

\* addUrlGroups without the filter on tabsInDuplicateGroups
RECURSIVE addUrlGroupsNoFilter(_, _, _)
addUrlGroupsNoFilter(map, k, acc) ==
  IF k > Len(map) THEN acc
  ELSE LET tabGroup == map[k].tabs
       IN addUrlGroupsNoFilter(map, k + 1,
            IF Len(tabGroup) > 1
            THEN [groups  |-> Append(acc.groups, Group(map[k].key, tabGroup)),
                  claimed |-> acc.claimed \cup idsOf(tabGroup)]
            ELSE acc)

\* for (const [url, tabGroup] of exactDuplicates): push what is left of a
\* group once the tabs already in a group are filtered out, if more than one
RECURSIVE addUrlGroups(_, _, _)
addUrlGroups(map, k, acc) ==
  IF k > Len(map) THEN acc
  ELSE LET tabGroup == map[k].tabs
           filteredGroup ==
             filterSeq(tabGroup, [i \in 1..Len(tabGroup) |-> tabGroup[i].id \notin acc.claimed])
       IN addUrlGroups(map, k + 1,
            IF Len(filteredGroup) > 1
            THEN [groups  |-> Append(acc.groups, Group(map[k].key, filteredGroup)),
                  claimed |-> acc.claimed \cup idsOf(filteredGroup)]
            ELSE acc)

duplicateGroups(valid) ==
  LET docs == addGoogleDocGroups(googleDocGroups(valid), 1, [groups |-> <<>>, claimed |-> {}])
  IN addUrlGroups(exactDuplicates(valid), 1, docs)

\* the comparison pool is cut to this many tabs: slice(0, 100)
PoolCap == 100

slice(seq, n) == SubSeq(seq, 1, Min2(Len(seq), n))

\* a pool that does not leave out the tabs of the duplicate groups
nonGoogleTabsOfAll(valid, claimed) ==
  slice(filterSeq(valid,
                  [i \in 1..Len(valid) |->
                     LET url == urlText(valid[i].url)
                     IN url = <<>> \/ ~includes(url, DocsGoogleCom)]),
        PoolCap)

nonGoogleTabs(valid, claimed) ==
  LET nonDuplicateTabs ==
        filterSeq(valid, [i \in 1..Len(valid) |-> valid[i].id \notin claimed])
  IN slice(filterSeq(nonDuplicateTabs,
                     [i \in 1..Len(nonDuplicateTabs) |->
                        LET url == urlText(nonDuplicateTabs[i].url)
                        IN url = <<>> \/ ~includes(url, DocsGoogleCom)]),
           PoolCap)

pairKey(tab1, tab2) == <<tab1.id, tab2.id>>

\* the nested loops over i < j, from position (i, j) on; acc is
\* [pairs, processed]
RECURSIVE pairLoop(_, _, _, _, _)
pairLoop(pool, thr, i, j, acc) ==
  IF i > Len(pool) THEN acc.pairs
  ELSE IF j > Len(pool) THEN pairLoop(pool, thr, i + 1, i + 2, acc)
  ELSE LET tab1 == pool[i]
           tab2 == pool[j]
       IN IF pairKey(tab1, tab2) \in acc.processed
          THEN pairLoop(pool, thr, i, j + 1, acc)
          ELSE LET similarity == findSimilarity(tab1, tab2, thr)
               IN pairLoop(pool, thr, i, j + 1,
                    [pairs |-> IF similarity.similar
                               THEN Append(acc.pairs,
                                           [tab1 |-> tab1, tab2 |-> tab2,
                                            score |-> similarity.score,
                                            reason |-> similarity.reason])
                               ELSE acc.pairs,
                     processed |-> acc.processed \cup {pairKey(tab1, tab2)}])

\* a sort that puts a pair before the pairs of equal score already placed
RECURSIVE insertPairUnstable(_, _)
insertPairUnstable(sorted, p) ==
  IF sorted = <<>> THEN <<p>>
  ELSE IF p.score - sorted[1].score >= 0 THEN <<p>> \o sorted
  ELSE <<sorted[1]>> \o insertPairUnstable(Tail(sorted), p)

\* similarPairs.sort((a, b) => b.score - a.score): Array.prototype.sort is
\* stable, so a pair goes after every pair already placed whose score is
\* not smaller
RECURSIVE insertPair(_, _)
insertPair(sorted, p) ==
  IF sorted = <<>> THEN <<p>>
  ELSE IF p.score - sorted[1].score > 0 THEN <<p>> \o sorted
  ELSE <<sorted[1]>> \o insertPair(Tail(sorted), p)

RECURSIVE sortPairs(_, _)
sortPairs(pairs, sorted) ==
  IF pairs = <<>> THEN sorted ELSE sortPairs(Tail(pairs), insertPair(sorted, pairs[1]))

\* a reduce that counts every tab of a group
RECURSIVE reduceCountAll(_, _)
reduceCountAll(groups, sum) ==
  IF groups = <<>> THEN sum ELSE reduceCountAll(Tail(groups), sum + groups[1].count)

\* duplicateGroups.reduce((sum, g) => sum + g.count - 1, 0)
RECURSIVE reduceCount(_, _)
reduceCount(groups, sum) ==
  IF groups = <<>> THEN sum ELSE reduceCount(Tail(groups), sum + groups[1].count - 1)

analyzeTabs(tabList, thr) ==
  LET valid == validTabs(tabList)
      dup == duplicateGroups(valid)
      pool == nonGoogleTabs(valid, dup.claimed)
      similarPairs == sortPairs(pairLoop(pool, thr, 1, 2, [pairs |-> <<>>, processed |-> {}]), <<>>)
  IN [ exactDuplicates |-> dup.groups,
       similarTabs     |-> similarPairs,
       totalDuplicates |-> reduceCount(dup.groups, 0),
       totalSimilar    |-> Len(similarPairs) ]

\* the popup shows this many pairs: slice(0, 20), Math.min(length, 20)
SimilarCap == 20

\* analyzeTabs as the popup has it: the copy differs in what it returns
popupAnalyzeTabs(tabList, thr) ==
  LET valid == validTabs(tabList)
      dup == duplicateGroups(valid)
      pool == nonGoogleTabs(valid, dup.claimed)
      similarPairs == sortPairs(pairLoop(pool, thr, 1, 2, [pairs |-> <<>>, processed |-> {}]), <<>>)
  IN [ exactDuplicates |-> dup.groups,
       similarTabs     |-> slice(similarPairs, SimilarCap),
       totalDuplicates |-> reduceCount(dup.groups, 0),
       totalSimilar    |-> Min2(Len(similarPairs), SimilarCap) ]

-----------------------------------------------------------------------------
(* Service worker: the badge *)

\* the default sort turns each entry [k, v] into the string 'k,v'
entryString(e) == e[1] \o <<",">> \o e[2]

\* [...entries].sort(): by the code units of the entries as strings; the
\* sort is stable, and entries that compare equal are equal
RECURSIVE insertEntry(_, _)
insertEntry(sorted, e) ==
  IF sorted = <<>> THEN <<e>>
  ELSE IF StrLess(entryString(e), entryString(sorted[1])) THEN <<e>> \o sorted
  ELSE <<sorted[1]>> \o insertEntry(Tail(sorted), e)

RECURSIVE sortEntries(_, _)
sortEntries(entries, sorted) ==
  IF entries = <<>> THEN sorted
  ELSE sortEntries(Tail(entries), insertEntry(sorted, entries[1]))

\* normalizeUrlSimple(urlString): every entry of searchParams is kept,
\* those of a repeated key too
normalizeUrlSimple(u) ==
  IF ~u.valid THEN urlText(u)
  ELSE LET hostname == stripWww(toLowerCase(u.host))
           stripped == stripTrailingSlashes(u.path)
           pathname == IF stripped = <<>> THEN <<"/">> ELSE stripped
           params == queryText(sortEntries(u.query, <<>>))
       IN u.scheme \o <<"/","/">> \o hostname
          \o (IF u.port # <<>> THEN <<":">> \o u.port ELSE <<>>)
          \o pathname
          \o (IF params # <<>> THEN <<"?">> \o params ELSE <<>>)

\* urlCounts: the Map from normalized url to count, as the sequence of its
\* entries in insertion order
RECURSIVE urlCounts(_, _, _)
urlCounts(tabList, i, map) ==
  IF i > Len(tabList) THEN map
  ELSE LET url == urlText(tabList[i].url) IN
       IF url = <<>> \/ startsWith(url, ChromeScheme) \/ startsWith(url, ChromeExtensionScheme)
       THEN urlCounts(tabList, i + 1, map)
       ELSE LET normalized == normalizeUrlSimple(tabList[i].url)
                at == {k \in 1..Len(map) : map[k].key = normalized}
            IN urlCounts(tabList, i + 1,
                 IF at = {} THEN Append(map, [key |-> normalized, count |-> 1])
                 ELSE [k \in 1..Len(map) |->
                         IF k \in at THEN [map[k] EXCEPT !.count = @ + 1] ELSE map[k]])

\* for (const count of urlCounts.values()) if (count > 1) duplicates += count - 1
RECURSIVE sumDuplicates(_, _)
sumDuplicates(map, duplicates) ==
  IF map = <<>> THEN duplicates
  ELSE sumDuplicates(Tail(map),
                     IF map[1].count > 1 THEN duplicates + map[1].count - 1 ELSE duplicates)

countDuplicates(tabList) == sumDuplicates(urlCounts(tabList, 1, <<>>), 0)

-----------------------------------------------------------------------------
(* Popup *)

\* a loop that starts at the first tab of each group
RECURSIVE collectTabsToCloseFromFirst(_)
collectTabsToCloseFromFirst(groups) ==
  IF groups = <<>> THEN <<>>
  ELSE [i \in 1..Len(groups[1].tabs) |-> groups[1].tabs[i].id]
       \o collectTabsToCloseFromFirst(Tail(groups))

\* for (const group of currentAnalysis.exactDuplicates)
\*   for (let i = 1; i < group.tabs.length; i++) tabsToClose.push(group.tabs[i].id)
RECURSIVE collectTabsToClose(_)
collectTabsToClose(groups) ==
  IF groups = <<>> THEN <<>>
  ELSE [i \in 1..(Len(groups[1].tabs) - 1) |-> groups[1].tabs[i + 1].id]
       \o collectTabsToClose(Tail(groups))

\* the host's tabs once those of ids are closed
closeTabs(tabList, ids) ==
  filterSeq(tabList, [i \in 1..Len(tabList) |-> tabList[i].id \notin ids])

\* chrome.tabs.remove(ids): closes the tabs if all are open; if one is not,
\* the call rejects, having closed those of the others the host chose to
RemoveOutcomes(tabList, ids) ==
  IF ids \subseteq idsOf(tabList) THEN {closeTabs(tabList, ids)}
  ELSE {closeTabs(tabList, closed) : closed \in SUBSET (ids \cap idsOf(tabList))}


-----------------------------------------------------------------------------
(* Inputs *)

Https == <<"h","t","t","p","s",":">>

Url(host, path, query, hash) ==
  [valid |-> TRUE, scheme |-> Https, host |-> host, port |-> <<>>, path |-> path,
   query |-> query, hash |-> hash, text |-> <<>>]

\* a string new URL() throws on
NotAUrl(text) ==
  [valid |-> FALSE, scheme |-> <<>>, host |-> <<>>, port |-> <<>>, path |-> <<>>,
   query |-> <<>>, hash |-> <<>>, text |-> text]

\* chrome://<host>: parseable, and filtered out by its prefix
ChromeUrl(host) ==
  [valid |-> TRUE, scheme |-> <<"c","h","r","o","m","e",":">>, host |-> host, port |-> <<>>,
   path |-> <<"/">>, query |-> <<>>, hash |-> <<>>, text |-> <<>>]

HostA == <<"a",".","i","o">>
HostWwwA == WwwDot \o HostA
HostB == <<"b",".","i","o">>
HostDocsUpper == <<"D","O","C","S",".","g","o","o","g","l","e",".","c","o","m">>

PathP == <<"/","p">>
PathPost1 == <<"/","p","o","s","t","1">>
PathPost2 == <<"/","p","o","s","t","2">>
PathDocEdit == <<"/","d","o","c","u","m","e","n","t","/","d","/","A","/","e","d","i","t">>
PathDocView == <<"/","d","o","c","u","m","e","n","t","/","d","/","A","/","v","i","e","w">>

KV(k, v) == <<k, v>>
A1 == KV(<<"a">>, <<"1">>)
B2 == KV(<<"b">>, <<"2">>)
RefX == KV(<<"r","e","f">>, <<"x">>)
UpperRefX == KV(<<"R","e","f">>, <<"x">>)
\* a query value that names the document host, as a link to a document does
ADocs == KV(<<"a">>, DocsGoogleCom)
A2 == KV(<<"a">>, <<"2">>)

TitleT == <<"T">>
TitleU == <<"U">>

\* The url/title pairs tabs are drawn from
Pages ==
  << [url |-> Url(HostA, PathP, <<>>, <<>>),                         title |-> TitleT],
     [url |-> Url(HostA, PathP, <<A1, B2>>, <<>>),                   title |-> TitleT],
     [url |-> Url(HostA, PathPost1, <<>>, <<>>),                     title |-> TitleT],
     [url |-> Url(HostA, PathPost2, <<>>, <<>>),                     title |-> TitleT],
     [url |-> Url(DocsGoogleCom, PathDocEdit, <<>>, <<>>),           title |-> TitleT],
     [url |-> Url(DocsGoogleCom, PathDocView, <<>>, <<>>),           title |-> TitleU],
     [url |-> Url(HostDocsUpper, PathDocView, <<>>, <<>>),           title |-> TitleU],
     [url |-> NotAUrl(<<"x"," ","x">>),                              title |-> TitleT],
     [url |-> ChromeUrl(<<"x">>),                                    title |-> TitleT],
     [url |-> Url(HostWwwA, PathP \o <<"/">>, <<>>, <<>>),           title |-> TitleT],
     [url |-> NotAUrl(<<>>),                                         title |-> <<>>],
     [url |-> Url(HostB, PathP, <<>>, <<>>),                         title |-> TitleT],
     [url |-> Url(HostA, PathP, <<>>, <<"#","s">>),                  title |-> TitleU],
     [url |-> Url(HostA, PathP, <<UpperRefX>>, <<>>),                title |-> TitleT],
     [url |-> Url(HostA, PathP, <<B2, A1, RefX>>, <<>>),             title |-> <<>>],
     [url |-> Url(HostA, PathP, <<A1, RefX, B2>>, <<>>),             title |-> TitleT],
     [url |-> Url(HostWwwA, PathP, <<A1, B2>>, <<>>),                title |-> TitleU],
     [url |-> Url(HostA, PathP, <<A1>>, <<>>),                       title |-> TitleT],
     [url |-> Url(HostA, PathP, <<B2>>, <<>>),                       title |-> TitleT],
     [url |-> Url(HostA, PathP, <<RefX>>, <<>>),                     title |-> TitleU],
     [url |-> Url(HostA, PathP, <<ADocs>>, <<>>),                    title |-> TitleT],
     [url |-> Url(HostDocsUpper, PathDocEdit, <<>>, <<>>),           title |-> TitleU],
     [url |-> Url(HostA, PathP, <<A1, A2>>, <<>>),                   title |-> TitleT],
     [url |-> Url(HostA, PathP, <<A2>>, <<>>),                       title |-> TitleT],
     [url |-> Url(HostA, PathP, <<A2, A1>>, <<>>),                   title |-> TitleU] >>

\* the pages the tab lists of analyzeTabs are drawn from
ListPages == 1..9

\* the most tabs in one tab list
MaxTabs == 4

\* the thresholds the callers of analyzeTabs pass
Thresholds == {0, 80, 90, 100}

\* threshold = 80
DefaultThreshold == 80

Tab(id, p) == [id |-> id, url |-> Pages[p].url, title |-> Pages[p].title]

\* a tab list: the host gives the tabs distinct ids
TabLists ==
  UNION { { [i \in 1..n |-> Tab(i, f[i])] : f \in [1..n -> ListPages] } : n \in 0..MaxTabs }

\* the two tabs of one findSimilarity call
TabPairs == { <<Tab(1, p), Tab(2, q)>> : p, q \in 1..Len(Pages) }

-----------------------------------------------------------------------------
(* The calls *)

\* result before any call has returned
NoCall == [op |-> "none"]

Init ==
  /\ tabs \in TabLists
  /\ threshold = DefaultThreshold
  /\ result = NoCall
  /\ currentAnalysis = NULL

\* analyzeTabs(tabs, t); a caller may analyse the same tabs again with a
\* higher threshold
AnalyzeTabs(t) ==
  /\ result.op = "none" \/ (result.op = "analyzeTabs" /\ t > threshold)
  /\ threshold' = t
  /\ result' = [op |-> "analyzeTabs", ret |-> analyzeTabs(tabs, t)]
  /\ UNCHANGED <<tabs, currentAnalysis>>

Next == \E t \in Thresholds : AnalyzeTabs(t)

Spec == Init /\ [][Next]_vars

\* the tabs open when the popup opens: seven pages that differ in their
\* query only; two normalized-URL groups and a document group; urls that do
\* not parse, internal pages and two similar paths
PopupSessions ==
  { [i \in 1..Len(pages) |-> Tab(i, pages[i])] :
      pages \in { <<1, 2, 14, 15, 18, 19, 20>>,
                  <<1, 5, 1, 6, 2, 17>>,
                  <<8, 8, 9, 3, 4>> } }

\* the values the threshold slider is moved to
SliderValues == {80, 100}

PopupInit ==
  /\ tabs \in PopupSessions
  /\ threshold = DefaultThreshold
  /\ result = NoCall
  /\ currentAnalysis = NULL

\* scanTabs(): on opening the popup and on the rescan button
ScanTabs ==
  /\ currentAnalysis' = popupAnalyzeTabs(tabs, threshold)
  /\ UNCHANGED <<tabs, threshold, result>>

\* the slider's change handler: sets the threshold and scans
ThresholdChange(t) ==
  /\ threshold' = t
  /\ currentAnalysis' = popupAnalyzeTabs(tabs, t)
  /\ UNCHANGED <<tabs, result>>

\* closeAllDuplicates(): returns at once without an analysis or with
\* nothing to close; otherwise asks the host to close the tabs, then scans.
\* result keeps the request and the analysis it was made from.
CloseAllDuplicates ==
  /\ currentAnalysis # NULL
  /\ LET tabsToClose == collectTabsToClose(currentAnalysis.exactDuplicates)
     IN /\ Len(tabsToClose) # 0
        /\ \E open \in RemoveOutcomes(tabs, {tabsToClose[i] : i \in 1..Len(tabsToClose)}) :
             /\ tabs' = open
             /\ currentAnalysis' = popupAnalyzeTabs(open, threshold)
        /\ result' = [op |-> "closeAllDuplicates",
                      currentAnalysis |-> currentAnalysis,
                      tabsToClose |-> tabsToClose]
  /\ UNCHANGED threshold

\* handleSimilarAction(pair, tabToClose, pairEl): 'Keep A' or 'Keep B' on a
\* pair of the analysis closes the other tab; the popup does not scan
HandleSimilarAction(k, tabToClose) ==
  /\ currentAnalysis # NULL
  /\ k \in 1..Len(currentAnalysis.similarTabs)
  /\ tabToClose \in {currentAnalysis.similarTabs[k].tab1, currentAnalysis.similarTabs[k].tab2}
  /\ tabs' \in RemoveOutcomes(tabs, {tabToClose.id})
  /\ UNCHANGED <<threshold, result, currentAnalysis>>

\* a tab is closed in the browser while the popup is open
TabRemoved(i) ==
  /\ i \in 1..Len(tabs)
  /\ tabs' = closeTabs(tabs, {tabs[i].id})
  /\ UNCHANGED <<threshold, result, currentAnalysis>>

PopupNext ==
  \/ ScanTabs
  \/ \E t \in SliderValues : ThresholdChange(t)
  \/ CloseAllDuplicates
  \/ \E k \in 1..SimilarCap : \E tabToClose \in {tabs[i] : i \in 1..Len(tabs)} :
       HandleSimilarAction(k, tabToClose)
  \/ \E i \in 1..Len(tabs) : TabRemoved(i)

PopupSpec == PopupInit /\ [][PopupNext]_vars

\* the tab lists the badge is computed for: no url has a document identity;
\* parameters in different orders, repeated keys, 'www.' and trailing
\* slashes, urls that do not parse, internal pages
BadgePages == {1, 8, 9, 10, 15, 16, 23, 24, 25}

BadgeTabLists ==
  UNION { { [i \in 1..n |-> Tab(i, f[i])] : f \in [1..n -> BadgePages] } : n \in 0..MaxTabs }

BadgeInit ==
  /\ tabs \in BadgeTabLists
  /\ threshold = DefaultThreshold
  /\ result = NoCall
  /\ currentAnalysis = NULL

\* updateBadge(): counts the duplicates of the open tabs and sets the badge
\* text to the count, or to '' when it is 0
UpdateBadge ==
  /\ result.op = "none"
  /\ LET duplicateCount == countDuplicates(tabs)
     IN result' = [op |-> "updateBadge", duplicateCount |-> duplicateCount,
                   badgeText |-> IF duplicateCount > 0 THEN <<duplicateCount>> ELSE <<>>]
  /\ UNCHANGED <<tabs, threshold, currentAnalysis>>

BadgeNext == UpdateBadge

BadgeSpec == BadgeInit /\ [][BadgeNext]_vars

\* tab lists in which urls name the document host in their query, or write
\* it in upper case
PoolPages == {1, 2, 3, 7, 21, 22}

PoolTabLists ==
  UNION { { [i \in 1..n |-> Tab(i, f[i])] : f \in [1..n -> PoolPages] } : n \in 0..MaxTabs }

PoolInit ==
  /\ tabs \in PoolTabLists
  /\ threshold = DefaultThreshold
  /\ result = NoCall
  /\ currentAnalysis = NULL

PoolSpec == PoolInit /\ [][Next]_vars

\* findSimilarity(tabs[i], tabs[j], threshold) on two tabs and a threshold
\* of 0..100
SimInit ==
  /\ tabs \in TabPairs
  /\ threshold \in 0..100
  /\ result = NoCall
  /\ currentAnalysis = NULL

FindSimilarity(i, j) ==
  /\ result.op = "none"
  /\ i # j
  /\ result' = [op |-> "findSimilarity", tab1 |-> tabs[i], tab2 |-> tabs[j],
                ret |-> findSimilarity(tabs[i], tabs[j], threshold)]
  /\ UNCHANGED <<tabs, threshold, currentAnalysis>>

SimNext == \E i, j \in 1..Len(tabs) : FindSimilarity(i, j)

SimSpec == SimInit /\ [][SimNext]_vars

\* the longest of the strings drawn over StrAlphabet
MaxStrLen == 4

StrAlphabet == {"a", "b"}

\* strings of eight characters: a distance of 1, 3, 5 or 7 leaves a
\* similarity that ends in .5
LongStrings ==
  { <<"a","a","a","a","a","a","a","a">>,
    <<"a","a","a","a","a","a","a","b">>,
    <<"a","b","a","b","a","b","a","b">>,
    <<"b","b","b","a","a","a","a","a">> }

\* the strings stringSimilarity and levenshteinDistance are called on
Strings ==
  UNION { [1..n -> StrAlphabet] : n \in 0..MaxStrLen } \cup LongStrings

StrInit ==
  /\ tabs = <<>>
  /\ threshold = DefaultThreshold
  /\ result = NoCall
  /\ currentAnalysis = NULL

StringSimilarity(str1, str2) ==
  /\ result.op = "none"
  /\ result' = [op |-> "stringSimilarity", str1 |-> str1, str2 |-> str2,
                ret |-> stringSimilarity(str1, str2)]
  /\ UNCHANGED <<tabs, threshold, currentAnalysis>>

LevenshteinDistance(str1, str2) ==
  /\ result.op = "none"
  /\ result' = [op |-> "levenshteinDistance", str1 |-> str1, str2 |-> str2,
                ret |-> levenshteinDistance(str1, str2)]
  /\ UNCHANGED <<tabs, threshold, currentAnalysis>>

StrNext ==
  \E str1, str2 \in Strings :
    \/ StringSimilarity(str1, str2)
    \/ LevenshteinDistance(str1, str2)

StrSpec == StrInit /\ [][StrNext]_vars

-----------------------------------------------------------------------------
(* Properties of analyzeTabs, under Spec *)

Analyzed == result.op = "analyzeTabs"

\* the ids of the tabs of the returned duplicate groups
GroupedIds(ret) == UNION {idsOf(ret.exactDuplicates[k].tabs) : k \in 1..Len(ret.exactDuplicates)}

IsGdocKey(key) == startsWith(key, GdocPrefix)

\* C1: the duplicate groups analyzeTabs returns are pairwise disjoint: no
\* tab id is in two groups, whether document-identity or normalized-URL.
C1_GroupsDisjoint ==
  Analyzed =>
    LET g == result.ret.exactDuplicates
    IN \A a, b \in 1..Len(g) : a # b => idsOf(g[a].tabs) \cap idsOf(g[b].tabs) = {}

\* C1 witness: a document-identity group and a normalized-URL group are
\* returned, and a tab of the first has the normalized URL of the second.
C1_Witness ==
  /\ Analyzed
  /\ LET g == result.ret.exactDuplicates
     IN \E a, b \in 1..Len(g) :
          /\ IsGdocKey(g[a].normalizedUrl)
          /\ ~IsGdocKey(g[b].normalizedUrl)
          /\ \E i \in 1..Len(g[a].tabs) : normalizeUrl(g[a].tabs[i].url) = g[b].normalizedUrl


\* C5: no tab of a returned similar pair is a member of a returned
\* duplicate group.
C5_PairsOutsideGroups ==
  Analyzed =>
    LET ret == result.ret
    IN \A k \in 1..Len(ret.similarTabs) :
         /\ ret.similarTabs[k].tab1.id \notin GroupedIds(ret)
         /\ ret.similarTabs[k].tab2.id \notin GroupedIds(ret)

\* C5 witness: a group and a similar pair are returned, and a grouped tab
\* is one that findSimilarity judges similar to a tab of the pair.
C5_Witness ==
  /\ Analyzed
  /\ LET ret == result.ret
     IN /\ ret.exactDuplicates # <<>>
        /\ \E k \in 1..Len(ret.similarTabs) : \E i \in 1..Len(tabs) :
             /\ tabs[i].id \in GroupedIds(ret)
             /\ findSimilarity(tabs[i], ret.similarTabs[k].tab2, threshold).similar

\* C7: every returned group has count = number of its tabs, and more than
\* one tab.
C7_GroupCounts ==
  Analyzed =>
    LET g == result.ret.exactDuplicates
    IN \A k \in 1..Len(g) : g[k].count = Len(g[k].tabs) /\ g[k].count > 1

\* the tabs of the input whose normalized URL is key
WithNormalizedUrl(key) ==
  {i \in 1..Len(tabs) : normalizeUrl(tabs[i].url) = key}

\* C7 witness: a tab with the normalized URL of a returned normalized-URL
\* group is in a document-identity group instead: the URL group lost it and
\* still has two tabs.
C7_Witness ==
  /\ Analyzed
  /\ LET g == result.ret.exactDuplicates
     IN \E k \in 1..Len(g) :
          /\ ~IsGdocKey(g[k].normalizedUrl)
          /\ g[k].count = 2
          /\ Cardinality(WithNormalizedUrl(g[k].normalizedUrl)) > g[k].count

\* C7 witness of the other outcome: the tabs left of a normalized-URL group
\* are fewer than two, and no group is returned for them.
C7_WitnessDropped ==
  /\ Analyzed
  /\ \E i, j \in 1..Len(tabs) :
       /\ i # j
       /\ normalizeUrl(tabs[i].url) = normalizeUrl(tabs[j].url)
       /\ tabs[i].id \in GroupedIds(result.ret)
       /\ tabs[j].id \notin GroupedIds(result.ret)

\* C8: totalDuplicates is the sum over the groups of count - 1: the tabs in
\* groups less one kept tab per group.
C8_TotalDuplicates ==
  Analyzed =>
    LET ret == result.ret
    IN ret.totalDuplicates = Cardinality(GroupedIds(ret)) - Len(ret.exactDuplicates)

\* C8 witness: a group of three tabs, totalDuplicates 2 (scenario 4), or
\* two groups.
C8_Witness ==
  /\ Analyzed
  /\ result.ret.totalDuplicates = 2
  /\ \E k \in 1..Len(result.ret.exactDuplicates) : result.ret.exactDuplicates[k].count = 3

\* the position of a pair in the order the i < j loops meet the pairs: by
\* tab1, then by tab2 (ids ascend along the tab list)
Before(p, q) == p.tab1.id < q.tab1.id \/ (p.tab1.id = q.tab1.id /\ p.tab2.id < q.tab2.id)

\* C9: the similar pairs are in descending score order, and pairs of equal
\* score are in the order the loops met them.
C9_SortedStable ==
  Analyzed =>
    LET sp == result.ret.similarTabs
    IN \A k \in 1..(Len(sp) - 1) :
         \/ sp[k].score > sp[k + 1].score
         \/ sp[k].score = sp[k + 1].score /\ Before(sp[k], sp[k + 1])

\* C9 witness: the sort moved a pair met later to the front, and two pairs
\* tie.
C9_Witness ==
  /\ Analyzed
  /\ LET sp == result.ret.similarTabs
     IN /\ Len(sp) >= 3
        /\ \E k \in 2..Len(sp) : Before(sp[k], sp[1]) /\ sp[k].score < sp[1].score
        /\ \E k \in 1..(Len(sp) - 1) : sp[k].score = sp[k + 1].score


PassesFilter(tab) == validTabs(<<tab>>) # <<>>

Unparseable(tab) == parseUrl(tab.url) = NULL

InSomePair(ret, id) ==
  \E k \in 1..Len(ret.similarTabs) :
    ret.similarTabs[k].tab1.id = id \/ ret.similarTabs[k].tab2.id = id

DocumentIdentity(tab) ==
  IF Unparseable(tab) THEN NULL
  ELSE getGoogleDocId(parseUrl(tab.url).hostname, parseUrl(tab.url).pathname)

DocumentKey(identity) == GdocPrefix \o identity.type \o <<":">> \o identity.docId

\* C4 as claimed: two tabs that pass the filter and have the same document
\* identity are together in a group with key 'gdoc:<type>:<docId>', and in
\* no normalized-URL group.
C4_SameDocumentGrouped ==
  Analyzed =>
    LET g == result.ret.exactDuplicates
    IN \A i, j \in 1..Len(tabs) :
         ( /\ i # j
           /\ PassesFilter(tabs[i])
           /\ PassesFilter(tabs[j])
           /\ DocumentIdentity(tabs[i]) # NULL
           /\ DocumentIdentity(tabs[i]) = DocumentIdentity(tabs[j]) )
         => /\ \E k \in 1..Len(g) :
                 /\ g[k].normalizedUrl = DocumentKey(DocumentIdentity(tabs[i]))
                 /\ {tabs[i].id, tabs[j].id} \subseteq idsOf(g[k].tabs)
            /\ \A k \in 1..Len(g) :
                 ~IsGdocKey(g[k].normalizedUrl) =>
                   idsOf(g[k].tabs) \cap {tabs[i].id, tabs[j].id} = {}

\* C4 holds of the tabs whose url string contains 'docs.google.com' as
\* written (the test analyzeTabs makes before it parses the url).
C4_GroupedWhenUrlNamesHost ==
  Analyzed =>
    LET g == result.ret.exactDuplicates
    IN \A i, j \in 1..Len(tabs) :
         ( /\ i # j
           /\ PassesFilter(tabs[i])
           /\ PassesFilter(tabs[j])
           /\ includes(urlText(tabs[i].url), DocsGoogleCom)
           /\ includes(urlText(tabs[j].url), DocsGoogleCom)
           /\ DocumentIdentity(tabs[i]) # NULL
           /\ DocumentIdentity(tabs[i]) = DocumentIdentity(tabs[j]) )
         => /\ \E k \in 1..Len(g) :
                 /\ g[k].normalizedUrl = DocumentKey(DocumentIdentity(tabs[i]))
                 /\ {tabs[i].id, tabs[j].id} \subseteq idsOf(g[k].tabs)
            /\ \A k \in 1..Len(g) :
                 ~IsGdocKey(g[k].normalizedUrl) =>
                   idsOf(g[k].tabs) \cap {tabs[i].id, tabs[j].id} = {}

\* C6: analysing the same tabs again with a threshold that is not lower
\* does not return more similar pairs.
C6_RaisingThreshold ==
  [][ (Analyzed /\ result'.op = "analyzeTabs" /\ threshold' >= threshold)
        => result'.ret.totalSimilar <= result.ret.totalSimilar ]_vars

\* C6 witness: at the threshold of the analysis some of the pairs of
\* threshold 0 are gone and some are left.
C6_Witness ==
  /\ Analyzed
  /\ threshold > 0
  /\ result.ret.totalSimilar > 0
  /\ result.ret.totalSimilar < analyzeTabs(tabs, 0).totalSimilar

-----------------------------------------------------------------------------
(* Properties of findSimilarity, under SimSpec *)

Classified == result.op = "findSimilarity"

\* hostname lower-cased, without a leading 'www.'
BaseHost(tab) == stripWww(toLowerCase(tab.url.host))

BothParse == ~Unparseable(result.tab1) /\ ~Unparseable(result.tab2)

\* the query mapping of a tab as a set of <<key, value>>
QueryMapping(tab) ==
  LET params == parseUrl(tab.url).params IN {params[i] : i \in 1..Len(params)}

WithoutTracking(mapping) == {kv \in mapping : toLowerCase(kv[1]) \notin TRACKING_PARAMS}

\* C3 as claimed: same base host, same path, different query mappings: the
\* verdict is 95 'Same page with tracking parameters' if the mappings are
\* equal as sets once the tracking keys are removed, in whatever order the
\* parameters are written, and similar with score 85 otherwise.
C3_TrackingOnlyAnyOrder ==
  ( /\ Classified
    /\ BothParse
    /\ BaseHost(result.tab1) = BaseHost(result.tab2)
    /\ parseUrl(result.tab1.url).pathname = parseUrl(result.tab2.url).pathname
    /\ QueryMapping(result.tab1) # QueryMapping(result.tab2) )
  => IF WithoutTracking(QueryMapping(result.tab1)) = WithoutTracking(QueryMapping(result.tab2))
     THEN result.ret = Verdict(TRUE, 95, Reason("Same page with tracking parameters"))
     ELSE result.ret.similar /\ result.ret.score = 85

\* C3 holds when the parameters that are not tracking parameters are
\* written in the same order in both urls.
C3_TrackingOnlySameOrder ==
  ( /\ Classified
    /\ BothParse
    /\ BaseHost(result.tab1) = BaseHost(result.tab2)
    /\ parseUrl(result.tab1.url).pathname = parseUrl(result.tab2.url).pathname
    /\ QueryMapping(result.tab1) # QueryMapping(result.tab2)
    /\ WithoutTracking(QueryMapping(result.tab1)) = WithoutTracking(QueryMapping(result.tab2)) )
  => \/ result.ret = Verdict(TRUE, 95, Reason("Same page with tracking parameters"))
     \/ getNonTrackingParams(parseUrl(result.tab1.url).params)
          # getNonTrackingParams(parseUrl(result.tab2.url).params)

\* C10: two tabs whose base hosts differ get the verdict not similar,
\* score 0, no reason, at every threshold of 0..100.
C10_CrossDomain ==
  (Classified /\ BothParse /\ BaseHost(result.tab1) # BaseHost(result.tab2))
  => result.ret = Verdict(FALSE, 0, NULL)

\* C10 witness: different base hosts, the same path and the same title, at
\* threshold 0.
C10_Witness ==
  /\ Classified
  /\ BothParse
  /\ threshold = 0
  /\ BaseHost(result.tab1) # BaseHost(result.tab2)
  /\ result.tab1.url.path = result.tab2.url.path
  /\ result.tab1.title = result.tab2.title
  /\ result.tab1.title # <<>>

\* Lemma for C6, at every threshold of 0..100: a pair found similar at a
\* threshold is found similar at the threshold below.
C6_PairMonotone ==
  (Classified /\ result.ret.similar /\ threshold > 0)
  => findSimilarity(result.tab1, result.tab2, threshold - 1).similar

\* C11: every verdict of findSimilarity has a reason if and only if it is
\* similar, and its score is an integer of 0..100, at every threshold of
\* 0..100.
C11_ReasonIffSimilar ==
  Classified =>
    /\ (result.ret.reason # NULL) <=> result.ret.similar
    /\ result.ret.similar \in BOOLEAN
    /\ result.ret.score \in 0..100

\* C11 witness: a verdict that is not similar and has no reason, with a
\* score computed from the paths and titles (not the 0 of an early return).
C11_Witness ==
  /\ Classified
  /\ ~result.ret.similar
  /\ result.ret.reason = NULL
  /\ result.ret.score > 0

\* C11 witness of the other side: a similar verdict whose score is the
\* rounded path similarity, with its reason.
C11_WitnessSimilar ==
  /\ Classified
  /\ result.ret.similar
  /\ result.ret.score \notin {85, 90, 95}
  /\ result.ret.reason = ReasonN("Similar page paths (N% match)", result.ret.score)

-----------------------------------------------------------------------------
(* Properties of stringSimilarity and levenshteinDistance, under StrSpec *)

\* the edit distance by its recurrence on the strings: the fewest
\* insertions, deletions and substitutions, each of cost 1, that turn s
\* into t
RECURSIVE EditDistance(_, _)
EditDistance(s, t) ==
  IF s = <<>> THEN Len(t)
  ELSE IF t = <<>> THEN Len(s)
  ELSE IF s[1] = t[1] THEN EditDistance(Tail(s), Tail(t))
  ELSE 1 + Min2(Min2(EditDistance(Tail(s), t),          \* delete s[1]
                     EditDistance(s, Tail(t))),         \* insert t[1]
                EditDistance(Tail(s), Tail(t)))         \* substitute

\* r is num / den rounded to the nearest integer, a half going up
IsRounded(r, num, den) ==
  /\ 2 * den * r - den <= 2 * num
  /\ 2 * num < 2 * den * r + den

C12_Distance ==
  result.op = "levenshteinDistance" =>
    /\ result.ret = EditDistance(result.str1, result.str2)
    /\ result.str1 = <<>> => result.ret = Len(result.str2)
    /\ result.str2 = <<>> => result.ret = Len(result.str1)

-----------------------------------------------------------------------------
(* The comparison pool of analyzeTabs, under PoolSpec and Spec *)

\* a tab of a document platform: its url has a document identity
IsDocumentPlatformTab(tab) == DocumentIdentity(tab) # NULL

\* the first 100 tabs, in original order, that pass the filter, are in no
\* returned group and satisfy comparable
UnclaimedPool(ret, comparable(_)) ==
  slice(filterSeq(tabs, [i \in 1..Len(tabs) |->
                           /\ PassesFilter(tabs[i])
                           /\ tabs[i].id \notin GroupedIds(ret)
                           /\ comparable(tabs[i])]),
        PoolCap)

\* the pairs of positions i < j of the pool that findSimilarity judges
\* similar
SimilarPairsOf(pool, thr) ==
  { pr \in (1..Len(pool)) \X (1..Len(pool)) :
      pr[1] < pr[2] /\ findSimilarity(pool[pr[1]], pool[pr[2]], thr).similar }

\* the entries of the returned list for the unordered pair of tabs a, b
EntriesFor(ret, a, b) ==
  { k \in 1..Len(ret.similarTabs) :
      {ret.similarTabs[k].tab1.id, ret.similarTabs[k].tab2.id} = {a.id, b.id} }

\* the returned list has exactly one entry for every similar pair of the
\* pool and no other entry, and totalSimilar is the number of the pairs
ListsPairsOf(ret, pool, thr) ==
  LET sim == SimilarPairsOf(pool, thr)
  IN /\ \A pr \in sim : Cardinality(EntriesFor(ret, pool[pr[1]], pool[pr[2]])) = 1
     /\ \A k \in 1..Len(ret.similarTabs) :
          \E pr \in sim : k \in EntriesFor(ret, pool[pr[1]], pool[pr[2]])
     /\ ret.totalSimilar = Cardinality(sim)

NotDocumentPlatform(tab) == ~IsDocumentPlatformTab(tab)

\* C13 as claimed: the pool is the first 100 unclaimed tabs that are not
\* document-platform tabs; the returned list has exactly one entry for
\* every unordered pair of the pool that findSimilarity judges similar at
\* the threshold and no other, and totalSimilar is their number.
C13_PoolPairsListed ==
  Analyzed => ListsPairsOf(result.ret, UnclaimedPool(result.ret, NotDocumentPlatform), threshold)

UrlDoesNotNameHost(tab) == ~includes(urlText(tab.url), DocsGoogleCom)

\* C13 holds of src/lib's analyzeTabs when the pool is taken to be the
\* unclaimed tabs whose url string does not contain 'docs.google.com' as
\* written.
C13_ListedForUrlsNotNamingHost ==
  Analyzed => ListsPairsOf(result.ret, UnclaimedPool(result.ret, UrlDoesNotNameHost), threshold)

-----------------------------------------------------------------------------
(* Properties of the popup, under PopupSpec *)

\* currentAnalysis is the analysis of the tabs now open
Scanned == currentAnalysis # NULL /\ currentAnalysis = popupAnalyzeTabs(tabs, threshold)

\* C13 of the popup's copy of analyzeTabs: the list it returns has one entry
\* for every similar pair of the pool, and totalSimilar is their number.
C13_PopupPairsListed ==
  Scanned =>
    ListsPairsOf(currentAnalysis, UnclaimedPool(currentAnalysis, NotDocumentPlatform), threshold)

\* what the popup's copy does return: the first 20 of the similar pairs
C13_PopupListsAtMostCap ==
  Scanned =>
    LET full == analyzeTabs(tabs, threshold)
    IN /\ currentAnalysis.similarTabs = slice(full.similarTabs, SimilarCap)
       /\ currentAnalysis.totalSimilar = Min2(full.totalSimilar, SimilarCap)

CloseAllCalled == result.op = "closeAllDuplicates"

RequestedIds == {result.tabsToClose[i] : i \in 1..Len(result.tabsToClose)}

\* C15: closeAllDuplicates asks the host to close exactly the tabs at
\* positions 1.. of each group of the current analysis: as many ids as
\* totalDuplicates, none twice, and never the first tab of a group.
C15_CloseAllButFirst ==
  CloseAllCalled =>
    LET g == result.currentAnalysis.exactDuplicates
        req == result.tabsToClose
    IN /\ Len(req) = result.currentAnalysis.totalDuplicates
       /\ \A i, j \in 1..Len(req) : i # j => req[i] # req[j]
       /\ RequestedIds = UNION { {g[k].tabs[m].id : m \in 2..Len(g[k].tabs)} : k \in 1..Len(g) }
       /\ \A k \in 1..Len(g) : g[k].tabs[1].id \notin RequestedIds

\* C15 witness: a request made from an analysis with a document group and
\* two normalized-URL groups.
C15_Witness ==
  /\ CloseAllCalled
  /\ Len(result.currentAnalysis.exactDuplicates) = 3
  /\ Len(result.tabsToClose) = 3

\* C15 witness of a request the host rejected: a requested tab had been
\* closed before, and one of the others is still open.
C15_WitnessRejected ==
  /\ CloseAllCalled
  /\ RequestedIds \cap idsOf(tabs) # {}

-----------------------------------------------------------------------------
(* Symmetry of findSimilarity, under SimSpec *)

\* C14: findSimilarity(a, b, t) and findSimilarity(b, a, t) return the same
\* similar flag, the same score and the same reason, for every pair of tabs
\* and every threshold of 0..100.
C14_Symmetric ==
  Classified =>
    LET swapped == findSimilarity(result.tab2, result.tab1, threshold)
    IN /\ swapped.similar = result.ret.similar
       /\ swapped.score = result.ret.score
       /\ swapped.reason = result.ret.reason

\* C14 witness: two tabs with paths of different lengths and different
\* titles, whose verdict is computed from the edit distance of the paths.
C14_Witness ==
  /\ Classified
  /\ BothParse
  /\ Len(result.tab1.url.path) < Len(result.tab2.url.path)
  /\ result.tab1.title # result.tab2.title
  /\ result.ret.similar
  /\ result.ret.reason = ReasonN("Similar page paths (N% match)", result.ret.score)

\* C14 witness of the query comparison: the two urls write the same
\* parameters in different orders.
C14_WitnessQueryOrder ==
  /\ Classified
  /\ BothParse
  /\ QueryMapping(result.tab1) = QueryMapping(result.tab2)
  /\ parseUrl(result.tab1.url).params # parseUrl(result.tab2.url).params
  /\ result.ret.similar

-----------------------------------------------------------------------------
(* The badge and the analysis, under BadgeSpec *)

BadgeUpdated == result.op = "updateBadge"

NoDocumentPlatformTab == \A i \in 1..Len(tabs) : ~IsDocumentPlatformTab(tabs[i])

\* the url writes a query key more than once
RepeatsKey(tab) ==
  \E i, j \in 1..Len(tab.url.query) : i # j /\ tab.url.query[i][1] = tab.url.query[j][1]

\* C16 as claimed: when no tab matches a document-platform pattern, the
\* count of countDuplicates equals totalDuplicates of analyzeTabs for the
\* same tabs, urls that repeat a query key and urls that do not parse
\* included.
C16_BadgeEqualsTotalDuplicates ==
  (BadgeUpdated /\ NoDocumentPlatformTab)
  => result.duplicateCount = analyzeTabs(tabs, DefaultThreshold).totalDuplicates

\* C16 holds of the tab lists in which no url repeats a query key (urls
\* that do not parse included).
C16_EqualWithoutRepeatedKeys ==
  (BadgeUpdated /\ NoDocumentPlatformTab /\ \A i \in 1..Len(tabs) : ~RepeatsKey(tabs[i]))
  => result.duplicateCount = analyzeTabs(tabs, DefaultThreshold).totalDuplicates


=============================================================================
